---- MODULE Spec2Model ----
(***************************************************************************)
(* The GO-term browser's client-side data-access layer (the richer variant *)
(* with expiring caches, request deduplication and prefetching).           *)
(*                                                                         *)
(* One action of the model is one macrotask of the JavaScript event loop   *)
(* (the page load, a user event, a timer callback, the arrival of a        *)
(* network response) together with every microtask it triggers: promise    *)
(* reactions and the continuations of the async functions awaiting them    *)
(* run to completion before the next macrotask starts.                     *)
(*                                                                         *)
(* Handlers are sequential code that calls other functions, so each        *)
(* function of the source is an operator from a state record S (the        *)
(* module-level maps plus the DOM) to the state record after the call.     *)
(***************************************************************************)
EXTENDS Integers, Sequences, FiniteSets, Bags, TLC

VARIABLES
    now,              \* Date.now(), in ms since the page was loaded
    events,           \* user events and clock steps so far
    loaded,           \* whether the script has been evaluated
    termCache,        \* id -> cache entry
    childrenCache,    \* id -> cache entry
    strainsCache,     \* id -> cache entry
    pendingRequests,  \* request key -> promise registered under it (0: none)
    promises,         \* <<key, slot>> -> the promise a fetch of key created
    prefetchQueue,    \* set of ids
    tasks,            \* async functions suspended at an await, oldest first
    timers,           \* bag of setTimeout callbacks not yet run
    label,            \* #selected-go-label
    list,             \* #strain-list
    tree,             \* #go-tree: position path -> li element
    fanout            \* how many child edges the API reports for the root

vars == <<now, events, loaded, termCache, childrenCache, strainsCache,
          pendingRequests, promises, prefetchQueue, tasks, timers, label,
          list, tree, fanout>>

-----------------------------------------------------------------------------
(* Bounds of the model.                                                    *)

MaxEvents == 3

\* How many clock steps the run with an ever advancing clock is followed.
MaxTicks == 4

\* The most child edges the root is given.
MaxChildren == 6

\* The longest leaf list the rendering is checked with.
MaxStrains == 150

-----------------------------------------------------------------------------
(* Program constants.                                                      *)

CACHE_EXPIRY == 30 * 60 * 1000

INITIAL_RENDER_COUNT == 100

\* The source lists three roots, which nothing relates to one another; the
\* model keeps one.
ROOT_TERMS == <<1>>

-----------------------------------------------------------------------------
(* The remote API: a hierarchy fixed for the run, one root with fanout      *)
(* children; every response may also fail.                                 *)

\* The ids the program can come to ask about: the root and its children.
Ids == 1..(fanout + 1)

Kinds == {"term", "children", "strains"}

Keys == Kinds \X Ids

\* The promises of one key that the model can tell apart; the second is
\* only ever used if two remote calls of a key are in flight at once.
Slots == {1, 2}

\* GET /go/{id}
ServerTerm(id) == [k |-> "term", go_id |-> id, name |-> id]

\* GET /go/children/{id}: the child_go_id of each edge
ServerChildren(id) == IF id = 1 THEN [i \in 1..fanout |-> i + 1] ELSE <<>>

\* GET /go/{id}/mmrrc-strains: the mmrrc_id of each record
ServerStrains(id) == <<10 * id + 1>>

\* ok: a success status and a body that parses; notok: a non-success status
\* (a 404, a 500); error: fetch() rejects (transport failure) or res.json()
\* rejects (parse failure), which reach the same reaction of every chain.
Outcomes == {"ok", "notok", "error"}

\* The clock is observed in steps of half the cache expiry, so that an entry
\* is seen at the ages 0, TTL/2, TTL, 3TTL/2, ...
TimeStep == CACHE_EXPIRY \div 2

-----------------------------------------------------------------------------
(* JavaScript values.                                                      *)

Null == [k |-> "null"]

Undefined == [k |-> "undefined"]

ListVal(s) == [k |-> "list", items |-> s]

Truthy(v) == v.k \notin {"null", "undefined"}

\* A settled promise's result: fulfilled with a value, or rejected.
Fulfilled(v) == [ok |-> TRUE, val |-> v]

Rejected == [ok |-> FALSE, val |-> Undefined]

NoEntry == [has |-> FALSE]

Entry(data, t) == [has |-> TRUE, data |-> data, timestamp |-> t]

NoPromise == [st |-> "free"]

\* What a call hands back: a value at once, or a promise still pending.
Imm(res) == [imm |-> TRUE, res |-> res]

Ref(key, slot) == [imm |-> FALSE, ref |-> <<key, slot>>]

-----------------------------------------------------------------------------
(* The three caches and the pending-request map.                           *)

\* `${kind}-${id}`
requestKey(kind, id) == <<kind, id>>

\* Faulty variant: an entry of exactly the expiry age still counts as valid.
CacheValidInclusive(cached, t) ==
    cached.has /\ t - cached.timestamp <= CACHE_EXPIRY

\* cached && Date.now() - cached.timestamp < CACHE_EXPIRY
CacheValid(cached, t) == cached.has /\ t - cached.timestamp < CACHE_EXPIRY

\* pendingRequests.has(requestKey)
HasPending(S, key) == S.pendingRequests[key] # 0

\* pendingRequests.get(requestKey): the registered promise, already settled
\* or not.
GetPending(S, key) ==
    LET slot == S.pendingRequests[key]
        p == S.promises[<<key, slot>>]
    IN  IF p.st = "pending" THEN Ref(key, slot) ELSE Imm(p.res)

FreeSlots(S, key) == {s \in Slots : S.promises[<<key, s>>].st = "free"}

\* fetch(url).then(...): a new promise for key, its remote call in flight.
\* pendingRequests.set(requestKey, promise) follows in the same statement
\* sequence of every caller, before anything else can run.
StartFetch(S, key, origin) ==
    IF FreeSlots(S, key) = {}
    THEN [S |-> [S EXCEPT !.stuck = TRUE], ret |-> Imm(Rejected)]
    ELSE LET slot == CHOOSE s \in FreeSlots(S, key) :
                        \A u \in FreeSlots(S, key) : s <= u
         IN  [S |-> [S EXCEPT
                       !.promises[<<key, slot>>] =
                           [st |-> "pending", origin |-> origin],
                       !.pendingRequests[key] = slot],
              ret |-> Ref(key, slot)]

\* Faulty variant: the promise is not looked up in pendingRequests before fetching.
fetchTermNoDedup(S, id) ==
    LET cached == S.termCache[id] IN
    IF CacheValid(cached, S.now)
    THEN [S |-> S, ret |-> Imm(Fulfilled(cached.data))]
    ELSE StartFetch(S, requestKey("term", id), "fetchTerm")

fetchTerm(S, id) ==
    LET cached == S.termCache[id] IN
    IF CacheValid(cached, S.now)
    THEN [S |-> S, ret |-> Imm(Fulfilled(cached.data))]
    ELSE IF HasPending(S, requestKey("term", id))
    THEN [S |-> S, ret |-> GetPending(S, requestKey("term", id))]
    ELSE StartFetch(S, requestKey("term", id), "fetchTerm")

\* Faulty variant: a hit renews the entry's timestamp.
fetchChildrenTouchOnHit(S, id) ==
    LET cached == S.childrenCache[id] IN
    IF CacheValid(cached, S.now)
    THEN [S |-> [S EXCEPT !.childrenCache[id] = Entry(cached.data, S.now)],
          ret |-> Imm(Fulfilled(cached.data))]
    ELSE IF HasPending(S, requestKey("children", id))
    THEN [S |-> S, ret |-> GetPending(S, requestKey("children", id))]
    ELSE StartFetch(S, requestKey("children", id), "fetchChildren")

fetchChildren(S, id) ==
    LET cached == S.childrenCache[id] IN
    IF CacheValid(cached, S.now)
    THEN [S |-> S, ret |-> Imm(Fulfilled(cached.data))]
    ELSE IF HasPending(S, requestKey("children", id))
    THEN [S |-> S, ret |-> GetPending(S, requestKey("children", id))]
    ELSE StartFetch(S, requestKey("children", id), "fetchChildren")

\* Faulty variant: the prefetch does not look for a request already pending.
prefetchStrainsUnchecked(S, goId) ==
    StartFetch(S, requestKey("strains", goId), "prefetchStrains").S

\* The call returns nothing; the promise it registers resolves to undefined.
prefetchStrains(S, goId) ==
    IF HasPending(S, requestKey("strains", goId))
    THEN S
    ELSE StartFetch(S, requestKey("strains", goId), "prefetchStrains").S

-----------------------------------------------------------------------------
(* The strain panel.                                                       *)

Min(a, b) == IF a < b THEN a ELSE b

\* Faulty variant: the control appears for a list of exactly the initial
\* count already.
renderStrainsControlAtLimit(strains) ==
    IF Len(strains.items) = 0
    THEN [k |-> "none"]
    ELSE [k |-> "items",
          shown |-> SubSeq(strains.items, 1,
                           Min(Len(strains.items), INITIAL_RENDER_COUNT)),
          more |-> Len(strains.items) >= INITIAL_RENDER_COUNT,
          rest |-> SubSeq(strains.items, INITIAL_RENDER_COUNT + 1,
                          Len(strains.items))]

\* The list after renderStrains: the items shown and, behind the "load
\* more" control when there is one, the items it will add.
renderStrains(strains) ==
    IF Len(strains.items) = 0
    THEN [k |-> "none"]
    ELSE [k |-> "items",
          shown |-> SubSeq(strains.items, 1,
                           Min(Len(strains.items), INITIAL_RENDER_COUNT)),
          more |-> Len(strains.items) > INITIAL_RENDER_COUNT,
          rest |-> SubSeq(strains.items, INITIAL_RENDER_COUNT + 1,
                          Len(strains.items))]

\* loadMoreLi.onclick: the control goes, the remaining items are appended.
loadMore(l) ==
    [k |-> "items", shown |-> l.shown \o l.rest, more |-> FALSE,
     rest |-> <<>>]

ListLoading == [k |-> "loading"]

ListError == [k |-> "error"]

\* showStrains resumed from its await with the promise's result: joined is
\* the await of a promise found in pendingRequests (strains || []), else the
\* await of the promise the call created itself.
showStrainsResume(S, joined, res) ==
    IF ~res.ok
    THEN [S EXCEPT !.list = ListError]
    ELSE IF joined /\ ~Truthy(res.val)
    THEN [S EXCEPT !.list = renderStrains(ListVal(<<>>))]
    ELSE [S EXCEPT !.list = renderStrains(res.val)]

\* showStrains up to its first await; an await of a settled promise resumes
\* within the same macrotask.
showStrains(S, term) ==
    LET S1 == [S EXCEPT !.label = <<term.name, term.go_id>>]
        cached == S1.strainsCache[term.go_id]
        key == requestKey("strains", term.go_id)
    IN  IF CacheValid(cached, S1.now)
        THEN [S1 EXCEPT !.list = renderStrains(cached.data)]
        ELSE LET S2 == [S1 EXCEPT !.list = ListLoading] IN
             IF HasPending(S2, key)
             THEN LET r == GetPending(S2, key)
                  IN  IF r.imm
                      THEN showStrainsResume(S2, TRUE, r.res)
                      ELSE [S2 EXCEPT !.tasks = Append(@,
                              [t |-> "show", joined |-> TRUE,
                               slots |-> <<r>>])]
             ELSE LET f == StartFetch(S2, key, "showStrains")
                  IN  IF f.ret.imm
                      THEN f.S
                      ELSE [f.S EXCEPT !.tasks = Append(@,
                              [t |-> "show", joined |-> FALSE,
                               slots |-> <<f.ret>>])]

-----------------------------------------------------------------------------
(* The tree.  An li is named by its position path; tree[<<>>] is #go-tree. *)

\* A task: an async function suspended at an await (of one promise, or of
\* Promise.all over several), with what it still waits for.
Task(t, path, joined, slots) ==
    [t |-> t, path |-> path, joined |-> joined, slots |-> slots]

Ready(slots) == \A i \in 1..Len(slots) : slots[i].imm

NewLi(term) ==
    [term |-> term, expanded |-> FALSE, loaded |-> FALSE, hidden |-> TRUE,
     loading |-> 0, kids |-> 0]

\* buildNode(term, container): a collapsed, unloaded li appended to the
\* container, which is #go-tree or the childrenUL of the li at that path.
buildNode(S, term, container) ==
    LET n == S.tree[container].kids + 1
        p == Append(container, n)
    IN  [S EXCEPT !.tree =
            [q \in DOMAIN S.tree \cup {p} |->
                IF q = p THEN NewLi(term)
                ELSE IF q = container THEN [S.tree[q] EXCEPT !.kids = n]
                ELSE S.tree[q]]]

RECURSIVE buildNodes(_, _, _)
\* for (const t of terms) { if (t) await buildNode(t, container); }
buildNodes(S, terms, container) ==
    IF terms = <<>> THEN S
    ELSE buildNodes(IF Truthy(Head(terms).val)
                    THEN buildNode(S, Head(terms).val, container)
                    ELSE S,
                    Tail(terms), container)

RECURSIVE fetchTermsOneAtATime(_, _, _)
\* Faulty variant: the next lookup is made only once the previous one has
\* returned its value.
fetchTermsOneAtATime(S, ids, acc) ==
    IF ids = <<>> THEN [S |-> S, rets |-> acc]
    ELSE LET f == fetchTerm(S, Head(ids))
         IN  IF f.ret.imm
             THEN fetchTermsOneAtATime(f.S, Tail(ids), Append(acc, f.ret))
             ELSE [S |-> f.S, rets |-> Append(acc, f.ret)]

RECURSIVE fetchTerms(_, _, _)
\* ids.map(id => fetchTerm(id)): every call is made, in order, before any
\* result is awaited; acc collects what the calls returned.
fetchTerms(S, ids, acc) ==
    IF ids = <<>> THEN [S |-> S, rets |-> acc]
    ELSE LET f == fetchTerm(S, Head(ids))
         IN  fetchTerms(f.S, Tail(ids), Append(acc, f.ret))

RECURSIVE prefetchChildren(_, _)
\* terms.forEach(term => { if (term) fetchChildren(term.go_id); })
prefetchChildren(S, terms) ==
    IF terms = <<>> THEN S
    ELSE prefetchChildren(IF Truthy(Head(terms).val)
                          THEN fetchChildren(S, Head(terms).val.go_id).S
                          ELSE S,
                          Tail(terms))

Results(slots) == [i \in 1..Len(slots) |-> slots[i].res]

\* setTimeout(callback, delay): the callback's captured terms.
SetTimer(S, kind, terms) ==
    [S EXCEPT !.timers = @ (+) SetToBag({[kind |-> kind, terms |-> terms]})]

\* Faulty variant: the readahead is scheduled for a list of any length.
clickAfterTermsUnbounded(S, path, childTerms) ==
    LET S1 == [S EXCEPT !.tree[path].loading = @ - 1]
        S2 == buildNodes(S1, childTerms, path)
        S3 == [S2 EXCEPT !.tree[path].loaded = TRUE]
        S4 == IF Len(childTerms) > 0
              THEN SetTimer(S3, "readahead", childTerms)
              ELSE S3
    IN  [S4 EXCEPT !.tree[path].expanded = TRUE]

\* The click handler after Promise.all(childTermsPromises).
clickAfterTerms(S, path, childTerms) ==
    LET S1 == [S EXCEPT !.tree[path].loading = @ - 1]
        S2 == buildNodes(S1, childTerms, path)
        S3 == [S2 EXCEPT !.tree[path].loaded = TRUE]
        S4 == IF Len(childTerms) > 0 /\ Len(childTerms) <= 5
              THEN SetTimer(S3, "readahead", childTerms)
              ELSE S3
    IN  [S4 EXCEPT !.tree[path].expanded = TRUE]

\* The click handler after await fetchChildren(term.go_id).
clickAfterChildren(S, path, children) ==
    LET f == fetchTerms(S, children.val.items, <<>>)
    IN  IF Ready(f.rets)
        THEN clickAfterTerms(f.S, path, Results(f.rets))
        ELSE [f.S EXCEPT !.tasks =
                Append(@, Task("clickTerms", path, FALSE, f.rets))]

\* Faulty variant: expanding loads the children whether or not the li is
\* loaded already.
onclickReloadsOnExpand(S, path) ==
    LET S1 == showStrains(S, S.tree[path].term)
        li == S1.tree[path]
    IN  IF ~li.expanded
        THEN LET S2 == [S1 EXCEPT !.tree[path].loading = @ + 1,
                                  !.tree[path].hidden = FALSE]
                 f == fetchChildren(S2, li.term.go_id)
             IN  IF f.ret.imm
                 THEN clickAfterChildren(f.S, path, f.ret.res)
                 ELSE [f.S EXCEPT !.tasks =
                         Append(@, Task("clickChildren", path, FALSE,
                                        <<f.ret>>))]
        ELSE [S1 EXCEPT !.tree[path].hidden = TRUE,
                        !.tree[path].expanded = FALSE]

\* textSpan.onclick of the li at path.
onclick(S, path) ==
    LET S1 == showStrains(S, S.tree[path].term)
        li == S1.tree[path]
    IN  IF ~li.expanded
        THEN IF ~li.loaded
             THEN LET S2 == [S1 EXCEPT !.tree[path].loading = @ + 1,
                                       !.tree[path].hidden = FALSE]
                      f == fetchChildren(S2, li.term.go_id)
                  IN  IF f.ret.imm
                      THEN clickAfterChildren(f.S, path, f.ret.res)
                      ELSE [f.S EXCEPT !.tasks =
                              Append(@, Task("clickChildren", path, FALSE,
                                             <<f.ret>>))]
             ELSE [S1 EXCEPT !.tree[path].hidden = FALSE,
                             !.tree[path].expanded = TRUE]
        ELSE [S1 EXCEPT !.tree[path].hidden = TRUE,
                        !.tree[path].expanded = FALSE]

\* The mouseenter listener of the li at path.
mouseenter(S, path) ==
    LET id == S.tree[path].term.go_id IN
    IF ~S.strainsCache[id].has /\ id \notin S.prefetchQueue
    THEN prefetchStrains([S EXCEPT !.prefetchQueue = @ \cup {id}], id)
    ELSE S

\* init() up to await Promise.all(rootTermsPromises).
init(S) ==
    LET S1 == [S EXCEPT !.tree[<<>>].loading = 1]
        f == fetchTerms(S1, ROOT_TERMS, <<>>)
    IN  [f.S EXCEPT !.tasks = Append(@, Task("init", <<>>, FALSE, f.rets))]

\* init() after the await.
initAfterTerms(S, rootTerms) ==
    LET S1 == [S EXCEPT !.tree[<<>>].loading = 0]
        S2 == buildNodes(S1, rootTerms, <<>>)
    IN  SetTimer(S2, "preload", rootTerms)

\* The setInterval callback.
SweepExpired(entry, t) == entry.has /\ t - entry.timestamp > CACHE_EXPIRY

SweepCache(cache, t) ==
    [id \in DOMAIN cache |->
        IF SweepExpired(cache[id], t) THEN NoEntry ELSE cache[id]]

\* Faulty variant: only termCache is swept.
sweepTermsOnly(S) ==
    [S EXCEPT !.termCache = SweepCache(@, S.now)]

sweep(S) ==
    [S EXCEPT !.termCache = SweepCache(@, S.now),
              !.childrenCache = SweepCache(@, S.now),
              !.strainsCache = SweepCache(@, S.now)]

-----------------------------------------------------------------------------
(* A response arrives: the promise's own reactions, then its awaiters.     *)

\* What the first reaction of every chain passes on: res.ok ? res.json() :
\* fallback, or a rejection.
Parsed(outcome, body, fallback) ==
    CASE outcome = "ok" -> Fulfilled(body)
      [] outcome = "notok" -> Fulfilled(fallback)
      [] OTHER -> Rejected

DeletePending(S, key) == [S EXCEPT !.pendingRequests[key] = 0]

\* Faulty variant: the entry is written without the test of data.
termReactionsCacheNull(S, id, outcome) ==
    LET key == requestKey("term", id)
        r == Parsed(outcome, ServerTerm(id), Null)
    IN  IF r.ok
        THEN [S |-> DeletePending(
                      [S EXCEPT !.termCache[id] = Entry(r.val, S.now)], key),
              res |-> Fulfilled(r.val)]
        ELSE [S |-> DeletePending(S, key), res |-> Fulfilled(Null)]

\* fetchTerm's .then(data => ...) and .catch(error => ...)
termReactions(S, id, outcome) ==
    LET key == requestKey("term", id)
        r == Parsed(outcome, ServerTerm(id), Null)
    IN  IF r.ok
        THEN [S |-> DeletePending(
                      IF Truthy(r.val)
                      THEN [S EXCEPT !.termCache[id] = Entry(r.val, S.now)]
                      ELSE S, key),
              res |-> Fulfilled(r.val)]
        ELSE [S |-> DeletePending(S, key), res |-> Fulfilled(Null)]

\* Faulty variant: the list is handed to the callers without being stored.
childrenReactionsResolveUncached(S, id, outcome) ==
    LET key == requestKey("children", id)
        r == Parsed(outcome, ListVal(ServerChildren(id)), ListVal(<<>>))
    IN  IF r.ok
        THEN [S |-> DeletePending(S, key), res |-> Fulfilled(r.val)]
        ELSE [S |-> DeletePending(S, key), res |-> Fulfilled(ListVal(<<>>))]

\* fetchChildren's .then(data => ...) and .catch(error => ...)
childrenReactions(S, id, outcome) ==
    LET key == requestKey("children", id)
        r == Parsed(outcome, ListVal(ServerChildren(id)), ListVal(<<>>))
    IN  IF r.ok
        THEN [S |-> DeletePending(
                      [S EXCEPT !.childrenCache[id] = Entry(r.val, S.now)],
                      key),
              res |-> Fulfilled(r.val)]
        ELSE [S |-> DeletePending(S, key), res |-> Fulfilled(ListVal(<<>>))]

\* prefetchStrains' .then(strains => ...) and .catch(error => ...): neither
\* returns a value.
prefetchReactions(S, goId, outcome) ==
    LET key == requestKey("strains", goId)
        r == Parsed(outcome, ListVal(ServerStrains(goId)), ListVal(<<>>))
        S1 == IF r.ok
              THEN [S EXCEPT !.strainsCache[goId] = Entry(r.val, S.now)]
              ELSE S
    IN  [S |-> [DeletePending(S1, key) EXCEPT !.prefetchQueue = @ \ {goId}],
         res |-> Fulfilled(Undefined)]

\* showStrains' .then(strains => ...); the chain has no .catch.
showReactions(S, goId, outcome) ==
    LET key == requestKey("strains", goId)
        r == Parsed(outcome, ListVal(ServerStrains(goId)), ListVal(<<>>))
    IN  IF r.ok
        THEN [S |-> DeletePending(
                      [S EXCEPT !.strainsCache[goId] = Entry(r.val, S.now)],
                      key),
              res |-> Fulfilled(r.val)]
        ELSE [S |-> S, res |-> Rejected]

Reactions(S, key, origin, outcome) ==
    CASE origin = "fetchTerm" -> termReactions(S, key[2], outcome)
      [] origin = "fetchChildren" -> childrenReactions(S, key[2], outcome)
      [] origin = "prefetchStrains" -> prefetchReactions(S, key[2], outcome)
      [] OTHER -> showReactions(S, key[2], outcome)

\* A task whose awaited promises have all settled runs on.
RunTask(S, task) ==
    CASE task.t = "show" ->
           showStrainsResume(S, task.joined, task.slots[1].res)
      [] task.t = "clickChildren" ->
           clickAfterChildren(S, task.path, task.slots[1].res)
      [] task.t = "clickTerms" ->
           clickAfterTerms(S, task.path, Results(task.slots))
      [] OTHER ->
           initAfterTerms(S, Results(task.slots))

Awaits(task, ref) ==
    \E i \in 1..Len(task.slots) :
        ~task.slots[i].imm /\ task.slots[i].ref = ref

Settle(slots, ref, res) ==
    [i \in 1..Len(slots) |->
        IF ~slots[i].imm /\ slots[i].ref = ref THEN Imm(res) ELSE slots[i]]

RemoveAt(seq, i) == SubSeq(seq, 1, i - 1) \o SubSeq(seq, i + 1, Len(seq))

RECURSIVE ResumeAll(_, _, _)
\* Every task awaiting the promise ref receives its result, oldest first.
ResumeAll(S, ref, res) ==
    LET waiting == {i \in 1..Len(S.tasks) : Awaits(S.tasks[i], ref)} IN
    IF waiting = {} THEN S
    ELSE LET i == CHOOSE j \in waiting : \A h \in waiting : j <= h
             task == [S.tasks[i] EXCEPT !.slots = Settle(@, ref, res)]
         IN  IF Ready(task.slots)
             THEN ResumeAll(RunTask([S EXCEPT !.tasks = RemoveAt(@, i)], task),
                            ref, res)
             ELSE ResumeAll([S EXCEPT !.tasks[i] = task], ref, res)

\* The remote call of promise <<key, slot>> ends with outcome.
respond(S, key, slot, outcome) ==
    LET origin == S.promises[<<key, slot>>].origin
        r == Reactions(S, key, origin, outcome)
        S1 == [r.S EXCEPT
                 !.promises[<<key, slot>>] =
                     [st |-> "settled", origin |-> origin, res |-> r.res]]
        S2 == ResumeAll(S1, <<key, slot>>, r.res)
    IN  \* a settled promise nothing refers to any more is garbage
        IF S2.pendingRequests[key] = slot
        THEN S2
        ELSE [S2 EXCEPT !.promises[<<key, slot>>] = NoPromise]

-----------------------------------------------------------------------------
(* The state machine.                                                      *)

\* The state the handlers of a macrotask start from.
Cur ==
    [now |-> now, termCache |-> termCache, childrenCache |-> childrenCache,
     strainsCache |-> strainsCache, pendingRequests |-> pendingRequests,
     promises |-> promises, prefetchQueue |-> prefetchQueue, tasks |-> tasks,
     timers |-> timers, label |-> label, list |-> list, tree |-> tree,
     stuck |-> FALSE]

\* The state a macrotask leaves behind.
Commit(S) ==
    /\ ~S.stuck
    /\ termCache' = S.termCache
    /\ childrenCache' = S.childrenCache
    /\ strainsCache' = S.strainsCache
    /\ pendingRequests' = S.pendingRequests
    /\ promises' = S.promises
    /\ prefetchQueue' = S.prefetchQueue
    /\ tasks' = S.tasks
    /\ timers' = S.timers
    /\ label' = S.label
    /\ list' = S.list
    /\ tree' = S.tree

Lis == DOMAIN tree \ {<<>>}

RootUl == [term |-> Null, expanded |-> FALSE, loaded |-> FALSE,
           hidden |-> FALSE, loading |-> 0, kids |-> 0]

Init ==
    /\ fanout = 1
    /\ now = 0
    /\ events = 0
    /\ loaded = FALSE
    /\ termCache = [id \in Ids |-> NoEntry]
    /\ childrenCache = [id \in Ids |-> NoEntry]
    /\ strainsCache = [id \in Ids |-> NoEntry]
    /\ pendingRequests = [key \in Keys |-> 0]
    /\ promises = [ref \in Keys \X Slots |-> NoPromise]
    /\ prefetchQueue = {}
    /\ tasks = <<>>
    /\ timers = EmptyBag
    /\ label = <<0, 0>>
    /\ list = [k |-> "blank"]
    /\ tree = [p \in {<<>>} |-> RootUl]

\* The script is evaluated: setInterval(...) and init().
Load ==
    /\ ~loaded
    /\ loaded' = TRUE
    /\ Commit(init(Cur))
    /\ UNCHANGED <<now, events, fanout>>

\* The clock advances.
Tick ==
    /\ loaded
    /\ events < MaxEvents
    /\ now' = now + TimeStep
    /\ events' = events + 1
    /\ UNCHANGED <<loaded, termCache, childrenCache, strainsCache,
                   pendingRequests, promises, prefetchQueue, tasks, timers,
                   label, list, tree, fanout>>

\* The user clicks the text of an li.
Click ==
    /\ events < MaxEvents
    /\ \E path \in Lis : Commit(onclick(Cur, path))
    /\ events' = events + 1
    /\ UNCHANGED <<now, loaded, fanout>>

\* The pointer enters the text of an li.
Hover ==
    /\ events < MaxEvents
    /\ \E path \in Lis : Commit(mouseenter(Cur, path))
    /\ events' = events + 1
    /\ UNCHANGED <<now, loaded, fanout>>

\* A setTimeout callback runs: the 500ms readahead or the 1000ms preload.
Timeout ==
    /\ \E tm \in BagToSet(timers) :
          Commit(prefetchChildren(
                    [Cur EXCEPT !.timers = @ (-) SetToBag({tm})],
                    tm.terms))
    /\ UNCHANGED <<now, events, loaded, fanout>>

\* The setInterval callback runs.
Sweep ==
    /\ loaded
    /\ Commit(sweep(Cur))
    /\ UNCHANGED <<now, events, loaded, fanout>>

\* The remote call of a pending promise ends.
Respond ==
    /\ \E key \in Keys, slot \in Slots, outcome \in Outcomes :
          /\ promises[<<key, slot>>].st = "pending"
          /\ Commit(respond(Cur, key, slot, outcome))
    /\ UNCHANGED <<now, events, loaded, fanout>>

Next == Load \/ Tick \/ Click \/ Hover \/ Timeout \/ Sweep \/ Respond

Spec == Init /\ [][Next]_vars

-----------------------------------------------------------------------------
(* The strain panel on its own.  The page has loaded, and the leaves of    *)
(* the root were prefetched by a hover from a server that answered with n  *)
(* records, for every n up to MaxStrains; the user then selects the root   *)
(* and uses the "load more" control.  (In Spec the server answers one      *)
(* record per term, so the control never appears there.)                   *)

StrainList(n) == [i \in 1..n |-> i]

RenderInit ==
    /\ fanout = 1
    /\ now = 0
    /\ events = 0
    /\ loaded = TRUE
    /\ termCache = [id \in Ids |->
                       IF id = 1 THEN Entry(ServerTerm(1), 0) ELSE NoEntry]
    /\ childrenCache = [id \in Ids |-> NoEntry]
    /\ \E n \in 0..MaxStrains :
          strainsCache = [id \in Ids |->
                             IF id = 1 THEN Entry(ListVal(StrainList(n)), 0)
                             ELSE NoEntry]
    /\ pendingRequests = [key \in Keys |-> 0]
    /\ promises = [ref \in Keys \X Slots |-> NoPromise]
    /\ prefetchQueue = {}
    /\ tasks = <<>>
    /\ timers = SetToBag({[kind |-> "preload",
                           terms |-> <<Fulfilled(ServerTerm(1))>>]})
    /\ label = <<0, 0>>
    /\ list = [k |-> "blank"]
    /\ tree = [p \in {<<>>, <<1>>} |->
                  IF p = <<>> THEN [RootUl EXCEPT !.kids = 1]
                  ELSE NewLi(ServerTerm(1))]

\* The first selection of a term.
RenderClick ==
    /\ list.k = "blank"
    /\ Click

\* The user activates the "load more" control.
LoadMore ==
    /\ list.k = "items"
    /\ list.more
    /\ list' = loadMore(list)
    /\ UNCHANGED <<now, events, loaded, termCache, childrenCache,
                   strainsCache, pendingRequests, promises, prefetchQueue,
                   tasks, timers, label, tree, fanout>>

RenderNext == RenderClick \/ LoadMore

RenderSpec == RenderInit /\ [][RenderNext]_vars

-----------------------------------------------------------------------------
(* The first expansion of the root on its own, for every number of child   *)
(* edges up to MaxChildren: the page loads, the user clicks the root once, *)
(* the timers run and the responses arrive in any order.                   *)

FanInit ==
    /\ fanout \in 0..MaxChildren
    /\ now = 0
    /\ events = 0
    /\ loaded = FALSE
    /\ termCache = [id \in Ids |-> NoEntry]
    /\ childrenCache = [id \in Ids |-> NoEntry]
    /\ strainsCache = [id \in Ids |-> NoEntry]
    /\ pendingRequests = [key \in Keys |-> 0]
    /\ promises = [ref \in Keys \X Slots |-> NoPromise]
    /\ prefetchQueue = {}
    /\ tasks = <<>>
    /\ timers = EmptyBag
    /\ label = <<0, 0>>
    /\ list = [k |-> "blank"]
    /\ tree = [p \in {<<>>} |-> RootUl]

\* The one click on the root.
FanClick ==
    /\ events = 0
    /\ Click

FanNext == Load \/ FanClick \/ Timeout \/ Respond

FanSpec == FanInit /\ [][FanNext]_vars

-----------------------------------------------------------------------------
(* The page left open: the clock keeps advancing (up to MaxTicks steps)    *)
(* independently of what the user does, and the interval timer keeps       *)
(* firing.  The user clicks once.                                          *)

LiveTick ==
    /\ loaded
    /\ now < MaxTicks * TimeStep
    /\ now' = now + TimeStep
    /\ UNCHANGED <<events, loaded, termCache, childrenCache, strainsCache,
                   pendingRequests, promises, prefetchQueue, tasks, timers,
                   label, list, tree, fanout>>

LiveClick ==
    /\ events = 0
    /\ Click

LiveNext == Load \/ LiveTick \/ LiveClick \/ Timeout \/ Sweep \/ Respond

\* Time passes, and a sweep that has something to remove gets to run.
LiveSpec ==
    /\ Init
    /\ [][LiveNext]_vars
    /\ WF_vars(LiveTick)
    /\ WF_vars(Sweep)

-----------------------------------------------------------------------------
(* State functions the properties are stated with.                         *)

\* The promises of key whose remote call is in flight.
InFlight(key) == {slot \in Slots : promises[<<key, slot>>].st = "pending"}

\* The awaits of suspended tasks that wait for a result of key.
Awaiting(key) ==
    {w \in UNION {{<<i, j>> : j \in 1..Len(tasks[i].slots)} :
                     i \in 1..Len(tasks)} :
        /\ ~tasks[w[1]].slots[w[2]].imm
        /\ tasks[w[1]].slots[w[2]].ref[1] = key}

Age(entry) == now - entry.timestamp

Quiescent == \A key \in Keys : InFlight(key) = {}

Fallback(kind) == IF kind = "term" THEN Null ELSE ListVal(<<>>)

-----------------------------------------------------------------------------
(* C1: while fetchTerm(id) calls are outstanding, exactly one remote call  *)
(* to /go/{id} is in flight, and every caller awaits the promise of that   *)
(* one call, the one registered in pendingRequests, so that all of them    *)
(* are resumed with the same result.                                       *)
C1_OneCallSharedByAllCallers ==
    \A id \in Ids :
        LET key == requestKey("term", id) IN
        /\ Cardinality(InFlight(key)) <= 1
        /\ \A w \in Awaiting(key) :
              /\ InFlight(key) = {pendingRequests[key]}
              /\ tasks[w[1]].slots[w[2]].ref = <<key, pendingRequests[key]>>

\* Two callers of fetchTerm for one id are suspended on its result.
C1_Witness ==
    \E id \in Ids : Cardinality(Awaiting(requestKey("term", id))) >= 2

(* C2: a key registered in pendingRequests is the key of a request that    *)
(* has not settled yet: once the request settles, by success or by         *)
(* failure, the entry is gone.                                             *)
C2_SettledRequestNotRegistered ==
    \A key \in Keys :
        pendingRequests[key] # 0 =>
            promises[<<key, pendingRequests[key]>>].st = "pending"

(* C3: when the remote call of a hover prefetch delivers a leaf list while *)
(* a showStrains of the same term is waiting for it, the panel then shows  *)
(* exactly that list.                                                      *)
C3_JoinedShowRendersPrefetchedList ==
    [][\A id \in Ids, slot \in Slots :
          LET key == requestKey("strains", id) IN
          ( /\ promises[<<key, slot>>].st = "pending"
            /\ promises[<<key, slot>>].origin = "prefetchStrains"
            /\ Awaiting(key) # {}
            /\ promises'[<<key, slot>>].st # "pending"
            /\ strainsCache'[id].has
            /\ strainsCache'[id].timestamp = now )
          => list' = renderStrains(strainsCache'[id].data)]_vars

(* C4: whatever way the remote call of a node, children or leaves fetch    *)
(* fails, the promise the callers await is fulfilled with the fallback     *)
(* value; it is never rejected.                                            *)
C4_FailureResolvesToFallback ==
    \A key \in Keys, slot \in Slots :
        ( /\ promises[<<key, slot>>].st = "pending"
          /\ promises[<<key, slot>>].origin # "prefetchStrains" )
        => \A outcome \in Outcomes \ {"ok"} :
              Reactions(Cur, key, promises[<<key, slot>>].origin, outcome).res
                  = Fulfilled(Fallback(key[1]))

(* C5: a read of any of the three caches, at any time, returns the stored  *)
(* value if and only if there is an entry younger than CACHE_EXPIRY;       *)
(* otherwise the reader goes on to the pending map and the remote call.    *)
C5_ReadHitsIffYoungerThanExpiry ==
    \A id \in Ids :
        /\ LET f == fetchTerm(Cur, id)
               e == termCache[id]
           IN  IF e.has /\ Age(e) < CACHE_EXPIRY
               THEN f.ret = Imm(Fulfilled(e.data))
               ELSE /\ ~f.ret.imm
                    /\ f.S.pendingRequests[requestKey("term", id)] # 0
        /\ LET f == fetchChildren(Cur, id)
               e == childrenCache[id]
           IN  IF e.has /\ Age(e) < CACHE_EXPIRY
               THEN f.ret = Imm(Fulfilled(e.data))
               ELSE /\ ~f.ret.imm
                    /\ f.S.pendingRequests[requestKey("children", id)] # 0
        /\ LET S == showStrains(Cur, ServerTerm(id))
               e == strainsCache[id]
           IN  IF e.has /\ Age(e) < CACHE_EXPIRY
               THEN S.list = renderStrains(e.data)
               ELSE /\ S.list \in {ListLoading, ListError}
                    /\ S.pendingRequests[requestKey("strains", id)] # 0

\* A children list of exactly the expiry age is still stored, and a reader
\* has passed it by: it waits for the remote call it started instead.
C5_Witness ==
    \E id \in Ids :
        /\ childrenCache[id].has
        /\ Age(childrenCache[id]) = CACHE_EXPIRY
        /\ InFlight(requestKey("children", id)) # {}
        /\ Awaiting(requestKey("children", id)) # {}

(* C6: an entry a successful fetch wrote stays as it is while it is        *)
(* younger than the TTL, and a fetchTerm or fetchChildren that finds it    *)
(* returns its value and changes nothing: no remote call, no pending       *)
(* entry, no cache write.                                                  *)
C6_HitChangesNothing ==
    /\ [](\A id \in Ids :
            /\ (termCache[id].has /\ Age(termCache[id]) < CACHE_EXPIRY)
                  => fetchTerm(Cur, id) =
                        [S |-> Cur, ret |-> Imm(Fulfilled(termCache[id].data))]
            /\ (childrenCache[id].has /\ Age(childrenCache[id]) < CACHE_EXPIRY)
                  => fetchChildren(Cur, id) =
                        [S |-> Cur,
                         ret |-> Imm(Fulfilled(childrenCache[id].data))])
    /\ [][\A id \in Ids :
            /\ (termCache[id].has
                  /\ now' - termCache[id].timestamp < CACHE_EXPIRY)
                  => termCache'[id] = termCache[id]
            /\ (childrenCache[id].has
                  /\ now' - childrenCache[id].timestamp < CACHE_EXPIRY)
                  => childrenCache'[id] = childrenCache[id]]_vars

\* Some time after they were fetched, a node and a children list are both
\* still served from the cache.
C6_Witness ==
    \E id \in Ids :
        /\ termCache[id].has
        /\ childrenCache[id].has
        /\ 0 < Age(termCache[id]) /\ Age(termCache[id]) < CACHE_EXPIRY
        /\ 0 < Age(childrenCache[id]) /\ Age(childrenCache[id]) < CACHE_EXPIRY

(* C7: a non-success answer to a node lookup fulfils the promise with      *)
(* null, writes no termCache entry and leaves nothing pending, so that the *)
(* next fetchTerm of the id starts a new remote call, whose answer it      *)
(* then gets.                                                              *)
C7_NotFoundIsNotCached ==
    \A id \in Ids, slot \in Slots :
        LET key == requestKey("term", id) IN
        promises[<<key, slot>>].st = "pending" =>
            LET S1 == respond(Cur, key, slot, "notok")
                f == fetchTerm(S1, id)
            IN  /\ termReactions(Cur, id, "notok").res = Fulfilled(Null)
                /\ S1.termCache[id] = termCache[id]
                /\ S1.pendingRequests[key] = 0
                /\ \A u \in Slots : S1.promises[<<key, u>>].st = "free"
                /\ ~f.ret.imm
                /\ f.S.promises[f.ret.ref].st = "pending"
                /\ termReactions(f.S, id, "ok").res = Fulfilled(ServerTerm(id))

\* An expansion has finished whose children list named a child, and the
\* lookup of that child resolved to null: no li was built for it, no entry
\* was cached and nothing is pending for it.
C7_Witness ==
    \E p \in Lis :
        LET id == tree[p].term.go_id IN
        /\ tree[p].loaded
        /\ tree[p].kids = 0
        /\ childrenCache[id].has
        /\ childrenCache[id].data.items # <<>>
        /\ \A i \in 1..Len(childrenCache[id].data.items) :
              LET child == childrenCache[id].data.items[i] IN
              /\ ~termCache[child].has
              /\ pendingRequests[requestKey("term", child)] = 0
              /\ InFlight(requestKey("term", child)) = {}

(* C8: the sweep removes every entry whose age is at least CACHE_EXPIRY,   *)
(* the age CACHE_EXPIRY included, and no younger entry.                    *)
C8_SweepRemovesAgedEntries ==
    \A id \in Ids :
        /\ termCache[id].has =>
              (sweep(Cur).termCache[id].has
                  <=> Age(termCache[id]) < CACHE_EXPIRY)
        /\ childrenCache[id].has =>
              (sweep(Cur).childrenCache[id].has
                  <=> Age(childrenCache[id]) < CACHE_EXPIRY)
        /\ strainsCache[id].has =>
              (sweep(Cur).strainsCache[id].has
                  <=> Age(strainsCache[id]) < CACHE_EXPIRY)

(* C9: at most one remote call per request key is in flight.               *)
C9_AtMostOneInFlightPerKey ==
    \A key \in Keys : Cardinality(InFlight(key)) <= 1

\* A click on a term found the hover prefetch of its strains in flight and
\* waits for it instead of calling again.
C9_Witness ==
    \E id \in Ids, slot \in Slots :
        /\ promises[<<requestKey("strains", id), slot>>].st = "pending"
        /\ promises[<<requestKey("strains", id), slot>>].origin
              = "prefetchStrains"
        /\ Awaiting(requestKey("strains", id)) # {}

(* C10: when no request is in flight, no id is left in prefetchQueue.      *)
C10_QuiescentQueueEmpty == Quiescent => prefetchQueue = {}

(* C11: a hover over a node whose leaves are not validly cached (no entry, *)
(* or an entry of age CACHE_EXPIRY or more), whose id is not marked and    *)
(* for which no leaves request is registered, marks the id and puts a      *)
(* leaves fetch in flight; a hover over a node whose leaves are validly    *)
(* cached or whose id is marked starts no fetch.                           *)
C11_HoverPrefetchesUnlessCachedOrMarked ==
    \A path \in Lis :
        LET id == tree[path].term.go_id
            key == requestKey("strains", id)
            S == mouseenter(Cur, path)
        IN  IF CacheValid(strainsCache[id], now) \/ id \in prefetchQueue
            THEN S.promises = promises
            ELSE pendingRequests[key] = 0 =>
                    /\ id \in S.prefetchQueue
                    /\ \E slot \in Slots :
                          /\ promises[<<key, slot>>].st = "free"
                          /\ S.promises[<<key, slot>>].st = "pending"

(* C12: renderStrains shows the first min(n, 100) items of a list of n, in *)
(* list order, with a "load more" control exactly when n > 100; activating *)
(* the control shows all n items in order, removes the control and starts  *)
(* no fetch.                                                               *)
C12_InitialRenderAndLoadMore ==
    /\ [][(list.k = "blank" /\ list' # list) =>
            LET data == strainsCache[label'[2]].data.items
                n == Len(data)
            IN  IF n = 0
                THEN list'.k = "none"
                ELSE /\ list'.k = "items"
                     /\ list'.shown = SubSeq(data, 1, Min(n, 100))
                     /\ list'.more <=> n > 100]_vars
    /\ [][(list.k = "items" /\ list.more /\ list' # list) =>
            /\ list'.k = "items"
            /\ list'.shown = strainsCache[label[2]].data.items
            /\ ~list'.more
            /\ promises' = promises
            /\ pendingRequests' = pendingRequests]_vars

\* The control of a list longer than the initial count has been used: the
\* whole list is shown.
C12_Witness ==
    /\ list.k = "items"
    /\ ~list.more
    /\ Len(list.shown) > 100
    /\ list.shown = strainsCache[label[2]].data.items

(* C13: when the children list of a first expansion arrives, the click     *)
(* handler calls fetchTerm for every child of the list within the same     *)
(* macrotask, before it awaits any result: afterwards every child that is  *)
(* not validly cached has its lookup in flight, all at the same time.      *)
C13_ChildLookupsDispatchedTogether ==
    \A i \in 1..Len(tasks) :
        (tasks[i].t = "clickChildren" /\ ~tasks[i].slots[1].imm) =>
            LET ref == tasks[i].slots[1].ref
                S1 == respond(Cur, ref[1], ref[2], "ok")
                children == ServerChildren(ref[1][2])
            IN  \A j \in 1..Len(children) :
                    \/ CacheValid(S1.termCache[children[j]], now)
                    \/ \E slot \in Slots :
                          S1.promises[<<requestKey("term", children[j]),
                                        slot>>].st = "pending"

\* The lookups of several children are in flight at once and the click
\* handler waits for all of them.
C13_Witness ==
    /\ Cardinality({c \in Ids : InFlight(requestKey("term", c)) # {}}) >= 2
    /\ \E i \in 1..Len(tasks) :
          /\ tasks[i].t = "clickTerms"
          /\ Len(tasks[i].slots) >= 2
          /\ \A j \in 1..Len(tasks[i].slots) : ~tasks[i].slots[j].imm

(* C14: when a term, children or leaves request is answered successfully, *)
(* the reactions have written the cache entry and removed the pending      *)
(* entry before any awaiting caller is resumed, and the entry is there     *)
(* when the macrotask ends: a key whose request has resolved successfully  *)
(* is validly cached.                                                      *)
C14_CachedBeforeCallersResume ==
    \A key \in Keys, slot \in Slots :
        promises[<<key, slot>>].st = "pending" =>
            LET id == key[2]
                body == CASE key[1] = "term" -> ServerTerm(id)
                          [] key[1] = "children" -> ListVal(ServerChildren(id))
                          [] OTHER -> ListVal(ServerStrains(id))
                Cache(S) == CASE key[1] = "term" -> S.termCache[id]
                              [] key[1] = "children" -> S.childrenCache[id]
                              [] OTHER -> S.strainsCache[id]
                r == Reactions(Cur, key, promises[<<key, slot>>].origin, "ok")
                S1 == respond(Cur, key, slot, "ok")
            IN  /\ r.S.tasks = tasks
                /\ CacheValid(Cache(r.S), now)
                /\ Cache(r.S).data = body
                /\ r.S.pendingRequests[key] = 0
                /\ CacheValid(Cache(S1), now)
                /\ Cache(S1).data = body

\* A click handler that waited for a children list has been resumed with
\* it and waits for the child lookups; the list is cached and no longer
\* pending.
C14_Witness ==
    \E i \in 1..Len(tasks) :
        LET id == tree[tasks[i].path].term.go_id IN
        /\ tasks[i].t = "clickTerms"
        /\ childrenCache[id].has
        /\ Age(childrenCache[id]) = 0
        /\ pendingRequests[requestKey("children", id)] = 0

(* C15: a children or leaves request that ends with a non-success status   *)
(* or a transport failure leaves childrenCache and strainsCache as they    *)
(* were: only a successful fetch creates an entry.                         *)
C15_FailedFetchStoresNothing ==
    \A key \in Keys, slot \in Slots :
        ( /\ promises[<<key, slot>>].st = "pending"
          /\ key[1] \in {"children", "strains"} )
        => \A outcome \in Outcomes \ {"ok"} :
              LET S1 == respond(Cur, key, slot, outcome)
              IN  /\ S1.childrenCache = childrenCache
                  /\ S1.strainsCache = strainsCache

(* C16: whatever clicks an li receives, its children are materialized at   *)
(* most once: no two child elements of one li show the same term.          *)
C16_ChildrenMaterializedOnce ==
    \A p \in Lis :
        \A i, j \in 1..tree[p].kids :
            i # j => tree[Append(p, i)].term # tree[Append(p, j)].term

(* C17: a click on a loaded li only toggles it: expanded is inverted and   *)
(* the children list is shown or hidden accordingly; no element is added   *)
(* or removed, no children or term request is started, no expansion is     *)
(* begun and no timer is set.                                              *)
C17_LoadedClickOnlyToggles ==
    \A p \in Lis :
        tree[p].loaded =>
            LET S == onclick(Cur, p) IN
            /\ DOMAIN S.tree = DOMAIN tree
            /\ \A q \in DOMAIN tree \ {p} : S.tree[q] = tree[q]
            /\ S.tree[p] = [tree[p] EXCEPT !.expanded = ~tree[p].expanded,
                                           !.hidden = tree[p].expanded]
            /\ \A key \in Keys, slot \in Slots :
                  key[1] \in {"term", "children"} =>
                      /\ S.promises[<<key, slot>>] = promises[<<key, slot>>]
                      /\ S.pendingRequests[key] = pendingRequests[key]
            /\ S.termCache = termCache
            /\ S.childrenCache = childrenCache
            /\ S.timers = timers
            /\ Len(S.tasks) >= Len(tasks)
            /\ SubSeq(S.tasks, 1, Len(tasks)) = tasks
            /\ \A i \in (Len(tasks) + 1)..Len(S.tasks) : S.tasks[i].t = "show"

\* A loaded li with a child has been collapsed by a click: its list is
\* hidden, and the child element is still there.
C17_Witness ==
    \E p \in Lis :
        /\ tree[p].loaded
        /\ tree[p].kids > 0
        /\ Append(p, 1) \in DOMAIN tree
        /\ ~tree[p].expanded
        /\ tree[p].hidden

(* C18: a readahead timer is only ever set for a resolved child list of 1  *)
(* to 5 entries; when it runs it starts at most one fetchChildren per      *)
(* non-null child of that list and nothing else, hence at most 5 requests; *)
(* for a node with more than 5 children no grandchildren list is ever      *)
(* requested by readahead.                                                 *)
C18_ReadaheadAtMostFive ==
    /\ \A tm \in BagToSet(timers) :
          tm.kind = "readahead" =>
              LET S == prefetchChildren(
                           [Cur EXCEPT !.timers = @ (-) SetToBag({tm})],
                           tm.terms)
                  started == {ref \in DOMAIN promises :
                                 /\ promises[ref].st # "pending"
                                 /\ S.promises[ref].st = "pending"}
                  nonNull == {i \in 1..Len(tm.terms) : Truthy(tm.terms[i].val)}
              IN  /\ 1 <= Len(tm.terms) /\ Len(tm.terms) <= 5
                  /\ Cardinality(started) <= Cardinality(nonNull)
                  /\ Cardinality(started) <= 5
                  /\ \A ref \in started :
                        /\ ref[1][1] = "children"
                        /\ \E i \in nonNull : tm.terms[i].val.go_id = ref[1][2]
    /\ fanout > 5 =>
          \A c \in Ids \ {1} :
              /\ ~childrenCache[c].has
              /\ InFlight(requestKey("children", c)) = {}

\* The readahead after an expansion with five children has run: the five
\* grandchildren lists are being fetched at once.
C18_Witness ==
    /\ fanout = 5
    /\ \A c \in Ids \ {1} : InFlight(requestKey("children", c)) # {}

\* An entry that has reached the expiry age, stored early enough for the
\* clock steps that are followed to take it past that age.
Expired(entry) ==
    /\ entry.has
    /\ Age(entry) >= CACHE_EXPIRY
    /\ entry.timestamp + CACHE_EXPIRY + TimeStep <= MaxTicks * TimeStep

(* C19: with the clock advancing and the sweep timer firing, every entry   *)
(* of any of the three caches that has reached the age CACHE_EXPIRY is     *)
(* eventually removed by the sweep, unless a re-fetch replaces it first:   *)
(* time and again no cache holds an entry of that age.                     *)
C19_ExpiredEntryEventuallyPurged ==
    []<>(\A id \in Ids :
            /\ ~Expired(termCache[id])
            /\ ~Expired(childrenCache[id])
            /\ ~Expired(strainsCache[id]))

\* The root was fetched and shown, more than the expiry time has passed,
\* and its entries are gone from all three caches with no request for them
\* in flight: the sweep has removed them.
C19_Witness ==
    /\ <<1>> \in DOMAIN tree
    /\ label = <<1, 1>>
    /\ list.k = "items"
    /\ tree[<<1>>].loaded
    /\ now > CACHE_EXPIRY
    /\ ~termCache[1].has
    /\ ~childrenCache[1].has
    /\ ~strainsCache[1].has
    /\ Quiescent

(* C20: whenever no leaves request is in flight and the panel shows        *)
(* strains, they are the strains of the term named in the label, the term  *)
(* selected last.                                                          *)
C20_PanelShowsSelectedTerm ==
    ( /\ \A id \in Ids : InFlight(requestKey("strains", id)) = {}
      /\ list.k = "items" )
    => list.shown = ServerStrains(label[2])

====
